---- MODULE Spec2Model ----
(***************************************************************************)
(* Model of goxel's Cycles bridge (src/src/cycles.cpp): the per-block mesh *)
(* construction, the scene assembly, the render key and the per-frame      *)
(* session controller cycles_render.                                       *)
(***************************************************************************)
EXTENDS Integers, Sequences, FiniteSets, TLC

VARIABLES
    pc,               \* position of the calling thread
    devices,          \* ccl::Device::available_devices()
    g_session_params, \* static ccl::SessionParams g_session_params
    g_session,        \* static ccl::Session *g_session
    sessions,         \* heap: every ccl::Session ever constructed
    g_buffer_params,  \* static ccl::BufferParams g_buffer_params
    last_key,         \* static uint64_t last_key of cycles_render
    key,              \* local key of cycles_render
    rect,             \* argument rect of cycles_render
    render_mesh,      \* goxel->render_mesh
    camera,           \* goxel->camera
    light,            \* goxel->rend.light
    ops,              \* session operations issued by the current/last call
    matched,          \* the key comparison of the current/last call was equal
    called,           \* cycles_render has been entered at least once
    mesh_out          \* result of a stand-alone create_mesh_for_block

vars == <<pc, devices, g_session_params, g_session, sessions, g_buffer_params,
          last_key, key, rect, render_mesh, camera, light, ops, matched,
          called, mesh_out>>

----------------------------------------------------------------------------
(* Bounds of the model *)

MaxBuilds == 3
MaxQuads == 3

(* Program constants *)

NULL == 0
BLOCK_SIZE == 16
KeyBits == 3
ByteBits == 2
Poly == 3

KeyMod == 2 ^ KeyBits
ByteMod == 2 ^ ByteBits

----------------------------------------------------------------------------
(* The voxel volume collaborator *)

Palette == << <<255, 0, 0, 255>>, <<0, 255, 0, 255>> >>
Colors == 1..Len(Palette)

BlockOrder == << <<0, 0, 0>>, <<BLOCK_SIZE, 0, 0>> >>
BlockPositions == {BlockOrder[k] : k \in 1..Len(BlockOrder)}

BlockContents(n) == UNION {[1..k -> Colors] : k \in 0..n}
Volumes(n) == [BlockPositions -> BlockContents(n)]
EmptyVolume == [p \in BlockPositions |-> <<>>]
\* What one edit leaves in a block: no visible quad, or one.
EditContents == {<<>>, <<1>>}

IsNeighbor(p, q) ==
    \E d \in 1..3 :
        /\ (p[d] - q[d] = BLOCK_SIZE \/ q[d] - p[d] = BLOCK_SIZE)
        /\ \A e \in (1..3) \ {d} : p[e] = q[e]

\* mesh_get_iterator(MESH_ITER_BLOCKS | MESH_ITER_INCLUDES_NEIGHBORS) and
\* mesh_iter: the blocks holding geometry and the blocks next to them.
mesh_iter(mesh) ==
    SelectSeq(BlockOrder,
              LAMBDA p : \/ mesh[p] # <<>>
                         \/ \E q \in BlockPositions :
                                IsNeighbor(p, q) /\ mesh[q] # <<>>)

QuadCorner(q, j) ==
    CASE j = 0 -> <<0, 0, q>>
      [] j = 1 -> <<1, 0, q>>
      [] j = 2 -> <<1, 1, q>>
      [] OTHER -> <<0, 1, q>>

\* mesh_generate_vertices: four voxel_vertex_t per visible quad, each with
\* the colour of the owning voxel.
mesh_generate_vertices(mesh, block_pos) ==
    [k \in 1..(4 * Len(mesh[block_pos])) |->
        [pos   |-> QuadCorner((k - 1) \div 4, (k - 1) % 4),
         color |-> Palette[mesh[block_pos][((k - 1) \div 4) + 1]]]]

----------------------------------------------------------------------------
(* crc64 and the volume's key, at a reduced width *)

RECURSIVE Xor(_, _)
Xor(a, b) ==
    IF a = 0 THEN b
    ELSE IF b = 0 THEN a
    ELSE (((a % 2) + (b % 2)) % 2) + 2 * Xor(a \div 2, b \div 2)

crc_bit(crc, bit) ==
    LET top == crc \div (2 ^ (KeyBits - 1))
        sh  == (crc * 2) % KeyMod
    IN  IF top # bit THEN Xor(sh, Poly) ELSE sh

RECURSIVE crc_byte(_, _, _)
crc_byte(crc, byte, n) ==
    IF n = 0 THEN crc
    ELSE crc_byte(crc_bit(crc, (byte \div (2 ^ (n - 1))) % 2), byte, n - 1)

\* The byte-wise lookup table of the checksum.
crc64_tab ==
    [c \in 0..(KeyMod - 1), b \in 0..(ByteMod - 1) |->
        crc_byte(c, b, ByteBits)]

RECURSIVE crc64(_, _)
crc64(crc, data) ==
    IF data = <<>> THEN crc
    ELSE crc64(crc64_tab[crc, Head(data) % ByteMod], Tail(data))

RECURSIVE VolumeBytes(_, _)
VolumeBytes(mesh, k) ==
    IF k > Len(BlockOrder) THEN <<>>
    ELSE <<Len(mesh[BlockOrder[k]])>> \o mesh[BlockOrder[k]]
             \o VolumeBytes(mesh, k + 1)

mesh_get_key(mesh) == crc64(0, VolumeBytes(mesh, 1))

----------------------------------------------------------------------------
(* create_mesh_for_block *)

NoAttr == <<>>

\* The vertex whose colour fills corner entry i of the "Col" attribute.
color_index(i) == (i \div 6) * 4

\* The two triangles of quad i.
quad_triangles(i) ==
    << <<i * 4 + 0, i * 4 + 1, i * 4 + 2>>,
       <<i * 4 + 2, i * 4 + 3, i * 4 + 0>> >>

create_mesh_for_block_badcolor(mesh, block_pos) ==
    LET vertices == mesh_generate_vertices(mesh, block_pos)
        nb == Len(vertices) \div 4
    IN  [subdivision_type |-> "SUBDIVISION_NONE",
         verts     |-> [k \in 1..(4 * nb) |-> vertices[k].pos],
         triangles |-> [t \in 1..(2 * nb) |->
                           quad_triangles((t - 1) \div 2)[((t - 1) % 2) + 1]],
         Col       |-> [c \in 1..(6 * nb) |->
                           vertices[((c - 1) \div 6) + 1].color]]

\* ret is allocated before the tessellation and returned as it is (empty)
\* when the block yields no quad; otherwise quad i adds its four vertices
\* and two triangles, and the corner attribute "Col" gets nb * 6 entries.
create_mesh_for_block(mesh, block_pos) ==
    LET vertices == mesh_generate_vertices(mesh, block_pos)
        nb == Len(vertices) \div 4
    IN  IF nb = 0
        THEN [subdivision_type |-> "SUBDIVISION_NONE",
              verts |-> <<>>, triangles |-> <<>>, Col |-> NoAttr]
        ELSE [subdivision_type |-> "SUBDIVISION_NONE",
              verts     |-> [k \in 1..(4 * nb) |->
                                vertices[((((k - 1) \div 4) * 4)
                                          + ((k - 1) % 4)) + 1].pos],
              triangles |-> [t \in 1..(2 * nb) |->
                                quad_triangles((t - 1) \div 2)
                                              [((t - 1) % 2) + 1]],
              Col       |-> [c \in 1..(nb * 6) |->
                                vertices[color_index(c - 1) + 1].color]]

----------------------------------------------------------------------------
(* get_light_dir and create_scene *)

\* Angles are counted in quarter turns, which keeps the rotations integral.
Sin4(a) == <<0, 1, 0, -1>>[(a % 4) + 1]
Cos4(a) == <<1, 0, -1, 0>>[(a % 4) + 1]
RotX(v, a) == <<v[1],
                Cos4(a) * v[2] - Sin4(a) * v[3],
                Sin4(a) * v[2] + Cos4(a) * v[3]>>
RotZ(v, a) == <<Cos4(a) * v[1] - Sin4(a) * v[2],
                Sin4(a) * v[1] + Cos4(a) * v[2],
                v[3]>>

\* m = I * Rz(yaw) * Rx(pitch); out = -(m * z)
get_light_dir ==
    LET z == <<0, 0, 1>>
        light_dir == RotZ(RotX(z, light.pitch), light.yaw)
    IN  <<-light_dir[1], -light_dir[2], -light_dir[3]>>

create_cube_shader ==
    [name  |-> "cubeShader",
     nodes |-> <<"colorNode", "diffuseBSDFNode">>,
     links |-> << <<"colorNode.Color", "diffuseBSDFNode.Color">>,
                  <<"diffuseBSDFNode.BSDF", "output.Surface">> >>]

create_light_shader ==
    [name  |-> "lightShader",
     nodes |-> <<"emissionNode">>,
     links |-> << <<"emissionNode.Emission", "output.Surface">> >>]

NoScene == [kind |-> "none"]
NoMesh == [kind |-> "none"]

\* The camera matrix, kept as the list of operations composing it.
camera_matrix ==
    << [op |-> "itranslate",
        arg |-> <<-camera.ofs[1], -camera.ofs[2], -camera.ofs[3]>>],
       [op |-> "imul_quat",
        arg |-> <<-camera.rot[1], camera.rot[2], camera.rot[3],
                  camera.rot[4]>>],
       [op |-> "itranslate", arg |-> <<0, 0, camera.dist>>],
       [op |-> "iscale", arg |-> <<1, 1, -1>>],
       [op |-> "transpose", arg |-> <<>>] >>

create_scene(w, h) ==
    LET gmesh  == render_mesh
        blocks == mesh_iter(gmesh)
    IN  [kind    |-> "scene",
         device  |-> sessions[g_session].device,
         camera  |-> [width |-> w, height |-> h,
                      full_width |-> w, full_height |-> h,
                      fov_deg |-> 20, type |-> "CAMERA_PERSPECTIVE",
                      matrix |-> camera_matrix,
                      need_update |-> TRUE, need_device_update |-> TRUE],
         film_exposure |-> 1,
         shaders |-> <<create_cube_shader, create_light_shader>>,
         meshes  |-> [k \in 1..Len(blocks) |->
                         create_mesh_for_block(gmesh, blocks[k])
                             @@ [used_shaders |-> <<"cubeShader">>]],
         objects |-> [k \in 1..Len(blocks) |->
                         [name |-> "mesh", mesh |-> k,
                          tfm_translate |-> blocks[k]]],
         lights  |-> << [type |-> "LIGHT_DISTANT", size_x100 |-> 5,
                         dir |-> get_light_dir,
                         shader |-> "lightShader"] >>]

----------------------------------------------------------------------------
(* Editor state read by the bridge *)

CpuInfo == [type |-> "CPU", description |-> "cpu0"]
Cpu2Info == [type |-> "CPU", description |-> "cpu1"]
CudaInfo == [type |-> "CUDA", description |-> "gpu0"]
\* ccl::DeviceInfo device_info; the default-constructed value (the library
\* sets its type to CPU), which is no entry of the available-device list.
DefaultDeviceInfo == [type |-> "CPU", description |-> ""]

DeviceLists == {<<CudaInfo>>, <<CudaInfo, CpuInfo, Cpu2Info>>}

DefaultSessionParams ==
    [progressive |-> FALSE, start_resolution |-> 2147483647,
     device |-> DefaultDeviceInfo, samples |-> 2147483647]

Rects == {<<0, 0, 800, 600>>, <<0, 0, 1024, 768>>}
NoBuffer == [width |-> 0, height |-> 0, full_width |-> 0, full_height |-> 0]

Offsets == {<<0, 0, 0>>, <<1, 0, 0>>}
Rotations == {<<1, 0, 0, 0>>}
Distances == {2}
Projections == {<<1, 2>>}
Lights == {[yaw |-> 0, pitch |-> 1], [yaw |-> 1, pitch |-> 1]}

\* camera_update: the view matrix is derived from offset, rotation and
\* distance; its raw bytes are what get_render_key folds.
view_mat_of(ofs, rot, dist) == ofs \o rot \o <<dist>>

MakeCamera(ofs, rot, dist, proj) ==
    [ofs |-> ofs, rot |-> rot, dist |-> dist,
     view_mat |-> view_mat_of(ofs, rot, dist), proj_mat |-> proj]

Cameras == {MakeCamera(o, r, d, p) :
               o \in Offsets, r \in Rotations, d \in Distances,
               p \in Projections}

DefaultCamera == MakeCamera(<<0, 0, 0>>, <<1, 0, 0, 0>>, 2, <<1, 2>>)
DefaultLight == [yaw |-> 0, pitch |-> 1]

----------------------------------------------------------------------------
(* get_render_key *)

get_render_key ==
    LET k0 == mesh_get_key(render_mesh)
        k1 == crc64(k0, camera.view_mat)
        k2 == crc64(k1, camera.proj_mat)
    IN  k2

----------------------------------------------------------------------------
(* The controller *)

Op(name, id, w, h) ==
    [op |-> name, session |-> id,
     alive |-> IF id \in DOMAIN sessions THEN sessions[id].alive ELSE FALSE,
     width |-> w, height |-> h]

Init ==
    /\ pc = "boot"
    /\ devices \in DeviceLists
    /\ g_session_params = DefaultSessionParams
    /\ g_session = NULL
    /\ sessions = <<>>
    /\ g_buffer_params = NoBuffer
    /\ last_key = 0
    /\ key = 0
    /\ rect = <<0, 0, 0, 0>>
    /\ render_mesh = EmptyVolume
    /\ camera = DefaultCamera
    /\ light = DefaultLight
    /\ ops = <<>>
    /\ matched = FALSE
    /\ called = FALSE
    /\ mesh_out = NoMesh

\* The first device of the list whose type is device_type, or the
\* default-constructed device_info when the loop finds none.
find_device(devs, device_type) ==
    LET hits == {i \in 1..Len(devs) : devs[i].type = device_type}
    IN  IF hits = {} THEN DefaultDeviceInfo
        ELSE devs[CHOOSE i \in hits : \A j \in hits : i <= j]

cycles_init ==
    /\ pc = "boot"
    /\ g_session_params' =
           [progressive |-> TRUE, start_resolution |-> 64,
            device |-> find_device(devices, "CPU"), samples |-> 20]
    /\ pc' = "idle"
    /\ UNCHANGED <<devices, g_session, sessions, g_buffer_params, last_key,
                   key, rect, render_mesh, camera, light, ops, matched,
                   called, mesh_out>>

\* The editor changes the volume, the camera or the light between frames.
edit_volume ==
    /\ pc = "idle"
    /\ \E p \in BlockPositions, c \in EditContents :
           /\ render_mesh[p] # c
           /\ render_mesh' = [render_mesh EXCEPT ![p] = c]
    /\ UNCHANGED <<pc, devices, g_session_params, g_session, sessions,
                   g_buffer_params, last_key, key, rect, camera, light, ops,
                   matched, called, mesh_out>>

move_camera ==
    /\ pc = "idle"
    /\ \E c \in Cameras : c # camera /\ camera' = c
    /\ UNCHANGED <<pc, devices, g_session_params, g_session, sessions,
                   g_buffer_params, last_key, key, rect, render_mesh, light,
                   ops, matched, called, mesh_out>>

set_light ==
    /\ pc = "idle"
    /\ \E l \in Lights : l # light /\ light' = l
    /\ UNCHANGED <<pc, devices, g_session_params, g_session, sessions,
                   g_buffer_params, last_key, key, rect, render_mesh, camera,
                   ops, matched, called, mesh_out>>

key_changed_always(k, last) == TRUE

\* key != last_key
key_changed(k, last) == k # last

\* cycles_render, lines 286-304: the buffer parameters, the key and the
\* comparison with last_key.
render_enter ==
    /\ pc = "idle"
    /\ \E r \in Rects :
           /\ rect' = r
           /\ g_buffer_params' = [width |-> r[3], height |-> r[4],
                                  full_width |-> r[3], full_height |-> r[4]]
    /\ key' = get_render_key
    /\ matched' = (get_render_key = last_key)
    /\ called' = TRUE
    /\ ops' = <<>>
    /\ \/ ~key_changed(get_render_key, last_key)
       \/ Len(sessions) < MaxBuilds
    /\ pc' = IF key_changed(get_render_key, last_key) THEN "rebuild"
             ELSE "draw"
    /\ UNCHANGED <<devices, g_session_params, g_session, sessions, last_key,
                   render_mesh, camera, light, mesh_out>>

Destroyed(s) == [s EXCEPT !.alive = FALSE, !.running = FALSE,
                          !.scene = NoScene]

rebuild_delete_leak ==
    /\ pc = "rebuild"
    /\ last_key' = key
    /\ pc' = "new"
    /\ UNCHANGED <<devices, g_session_params, g_session, sessions,
                   g_buffer_params, key, rect, render_mesh, camera, light,
                   ops, matched, called, mesh_out>>

\* last_key = key; if (g_session) delete g_session;
rebuild_delete ==
    /\ pc = "rebuild"
    /\ last_key' = key
    /\ IF g_session # NULL
       THEN /\ sessions[g_session].alive
            /\ sessions' = [sessions EXCEPT
                               ![g_session] = Destroyed(sessions[g_session])]
            /\ ops' = Append(ops, Op("delete", g_session, 0, 0))
       ELSE UNCHANGED <<sessions, ops>>
    /\ pc' = "new"
    /\ UNCHANGED <<devices, g_session_params, g_session, g_buffer_params,
                   key, rect, render_mesh, camera, light, matched, called,
                   mesh_out>>

\* g_session = new ccl::Session(g_session_params);
rebuild_new ==
    /\ pc = "new"
    /\ sessions' = Append(sessions,
                          [alive |-> TRUE, running |-> FALSE,
                           params |-> g_session_params,
                           device |-> g_session_params.device,
                           scene |-> NoScene, buffer |-> NoBuffer,
                           samples |-> 0])
    /\ g_session' = Len(sessions) + 1
    /\ ops' = Append(ops, [Op("new", Len(sessions) + 1, 0, 0)
                              EXCEPT !.alive = TRUE])
    /\ pc' = "scene"
    /\ UNCHANGED <<devices, g_session_params, g_buffer_params, last_key, key,
                   rect, render_mesh, camera, light, matched, called,
                   mesh_out>>

\* g_session->scene = create_scene(w, h);
rebuild_scene ==
    /\ pc = "scene"
    /\ sessions' = [sessions EXCEPT
                       ![g_session].scene = create_scene(rect[3], rect[4])]
    /\ ops' = Append(ops, Op("create_scene", g_session, rect[3], rect[4]))
    /\ pc' = "reset"
    /\ UNCHANGED <<devices, g_session_params, g_session, g_buffer_params,
                   last_key, key, rect, render_mesh, camera, light, matched,
                   called, mesh_out>>

\* g_session->reset(g_buffer_params, g_session_params.samples);
rebuild_reset ==
    /\ pc = "reset"
    /\ sessions' = [sessions EXCEPT
                       ![g_session].buffer = g_buffer_params,
                       ![g_session].samples = g_session_params.samples]
    /\ ops' = Append(ops, Op("reset", g_session, g_buffer_params.width,
                             g_buffer_params.height))
    /\ pc' = "start"
    /\ UNCHANGED <<devices, g_session_params, g_session, g_buffer_params,
                   last_key, key, rect, render_mesh, camera, light, matched,
                   called, mesh_out>>

\* g_session->start();
rebuild_start ==
    /\ pc = "start"
    /\ sessions' = [sessions EXCEPT ![g_session].running = TRUE]
    /\ ops' = Append(ops, Op("start", g_session, 0, 0))
    /\ pc' = "draw"
    /\ UNCHANGED <<devices, g_session_params, g_session, g_buffer_params,
                   last_key, key, rect, render_mesh, camera, light, matched,
                   called, mesh_out>>

\* if (!g_session) return;
render_no_session ==
    /\ pc = "draw"
    /\ g_session = NULL
    /\ pc' = "idle"
    /\ key' = 0
    /\ UNCHANGED <<devices, g_session_params, g_session, sessions,
                   g_buffer_params, last_key, rect, render_mesh, camera,
                   light, ops, matched, called, mesh_out>>

\* g_session->draw(g_buffer_params, draw_params);
render_draw ==
    /\ pc = "draw"
    /\ g_session # NULL
    /\ ops' = Append(ops, Op("draw", g_session, g_buffer_params.width,
                             g_buffer_params.height))
    /\ pc' = "status"
    /\ UNCHANGED <<devices, g_session_params, g_session, sessions,
                   g_buffer_params, last_key, key, rect, render_mesh, camera,
                   light, matched, called, mesh_out>>

\* g_session->progress.get_status(status, substatus);
render_status ==
    /\ pc = "status"
    /\ ops' = Append(ops, Op("get_status", g_session, 0, 0))
    /\ pc' = "idle"
    /\ key' = 0
    /\ UNCHANGED <<devices, g_session_params, g_session, sessions,
                   g_buffer_params, last_key, rect, render_mesh, camera,
                   light, matched, called, mesh_out>>

cycles_render ==
    \/ render_enter
    \/ rebuild_delete
    \/ rebuild_new
    \/ rebuild_scene
    \/ rebuild_reset
    \/ rebuild_start
    \/ render_no_session
    \/ render_draw
    \/ render_status

Next ==
    \/ cycles_init
    \/ edit_volume
    \/ move_camera
    \/ set_light
    \/ cycles_render

Spec == Init /\ [][Next]_vars

----------------------------------------------------------------------------
(* Failing construction: new ccl::Session or create_scene throws *)

\* new ccl::Session(g_session_params) throws: g_session keeps the pointer
\* that was just deleted, last_key already holds key.
rebuild_new_throws ==
    /\ pc = "new"
    /\ \E caught \in BOOLEAN :
           pc' = IF caught THEN "idle" ELSE "terminated"
    /\ key' = 0
    /\ UNCHANGED <<devices, g_session_params, g_session, sessions,
                   g_buffer_params, last_key, rect, render_mesh, camera,
                   light, ops, matched, called, mesh_out>>

\* create_scene(w, h) throws: the new session is left without a scene.
rebuild_scene_throws ==
    /\ pc = "scene"
    /\ \E caught \in BOOLEAN :
           pc' = IF caught THEN "idle" ELSE "terminated"
    /\ key' = 0
    /\ UNCHANGED <<devices, g_session_params, g_session, sessions,
                   g_buffer_params, last_key, rect, render_mesh, camera,
                   light, ops, matched, called, mesh_out>>

\* delete g_session on a pointer that was deleted before: the build either
\* stops here or goes on.
rebuild_delete_dangling ==
    /\ pc = "rebuild"
    /\ g_session # NULL
    /\ ~sessions[g_session].alive
    /\ last_key' = key
    /\ ops' = Append(ops, Op("delete", g_session, 0, 0))
    /\ \E crash \in BOOLEAN :
           pc' = IF crash THEN "terminated" ELSE "new"
    /\ UNCHANGED <<devices, g_session_params, g_session, sessions,
                   g_buffer_params, key, rect, render_mesh, camera, light,
                   matched, called, mesh_out>>

\* draw or get_status through a deleted session may also stop the program.
dangling_crash ==
    /\ pc \in {"draw", "status"}
    /\ g_session # NULL
    /\ ~sessions[g_session].alive
    /\ pc' = "terminated"
    /\ UNCHANGED <<devices, g_session_params, g_session, sessions,
                   g_buffer_params, last_key, key, rect, render_mesh, camera,
                   light, ops, matched, called, mesh_out>>

NextFail ==
    \/ Next
    \/ rebuild_new_throws
    \/ rebuild_scene_throws
    \/ rebuild_delete_dangling
    \/ dangling_crash

SpecFail == Init /\ [][NextFail]_vars

----------------------------------------------------------------------------
(* create_mesh_for_block on its own, over every bounded volume *)

InitMesh ==
    /\ pc = "mesh"
    /\ devices = <<CudaInfo, CpuInfo, Cpu2Info>>
    /\ g_session_params = DefaultSessionParams
    /\ g_session = NULL
    /\ sessions = <<>>
    /\ g_buffer_params = NoBuffer
    /\ last_key = 0
    /\ key = 0
    /\ rect = <<0, 0, 0, 0>>
    /\ render_mesh \in Volumes(MaxQuads)
    /\ camera = DefaultCamera
    /\ light = DefaultLight
    /\ ops = <<>>
    /\ matched = FALSE
    /\ called = FALSE
    /\ mesh_out = NoMesh

mesh_block ==
    /\ pc = "mesh"
    /\ \E p \in BlockPositions :
           mesh_out' = [kind |-> "mesh", block_pos |-> p,
                        mesh |-> create_mesh_for_block(render_mesh, p)]
    /\ UNCHANGED <<pc, devices, g_session_params, g_session, sessions,
                   g_buffer_params, last_key, key, rect, render_mesh, camera,
                   light, ops, matched, called>>

NextMesh == mesh_block

SpecMesh == InitMesh /\ [][NextMesh]_vars

----------------------------------------------------------------------------
(* Properties *)

OpNames == [i \in 1..Len(ops) |-> ops[i].op]
LiveSessions == {i \in 1..Len(sessions) : sessions[i].alive}
RunningSessions == {i \in 1..Len(sessions) : sessions[i].running}
IsPrefix(a, b) ==
    /\ Len(a) <= Len(b)
    /\ \A i \in 1..Len(a) : a[i] = b[i]
DrawOps == {i \in 1..Len(ops) : ops[i].op = "draw"}

\* C1: a cycles_render call whose key equals last_key changes neither the
\* session heap, nor g_session, nor last_key in any of its steps (nothing is
\* destroyed, constructed or built), and the only session operations it
\* issues are the draw and the status query.
C1_NoRebuildOnEqualKey ==
    [][matched' =>
          /\ sessions' = sessions
          /\ g_session' = g_session
          /\ last_key' = last_key
          /\ \A i \in 1..Len(ops') : ops'[i].op \in {"draw", "get_status"}
      ]_vars

C1_Witness ==
    /\ pc = "idle"
    /\ matched
    /\ g_session # NULL
    /\ OpNames = <<"draw", "get_status">>
    /\ Len(sessions) = 1

\* C2: at most one session is live in every state, only the live session
\* can have running workers, and the operations of a call happen in the
\* order delete (when a session existed), new, create_scene, reset, start,
\* draw, get_status; a delete acts on the session that was live and leaves
\* no live session for the construction that follows.
C2_OneLiveSessionInOrder ==
    /\ Cardinality(LiveSessions) <= 1
    /\ RunningSessions \subseteq LiveSessions
    /\ \/ IsPrefix(OpNames, <<"delete", "new", "create_scene", "reset",
                              "start", "draw", "get_status">>)
       \/ IsPrefix(OpNames, <<"new", "create_scene", "reset", "start",
                              "draw", "get_status">>)
       \/ IsPrefix(OpNames, <<"draw", "get_status">>)
    /\ \A i \in 1..Len(ops) :
           ops[i].op = "new" =>
               /\ LiveSessions \subseteq {ops[i].session}
               /\ ops[i].session > 1 => (i > 1 /\ ops[i - 1].op = "delete")
    /\ \A i \in 1..Len(ops) : ops[i].op = "delete" => ops[i].alive

C2_Witness ==
    /\ pc = "idle"
    /\ OpNames = <<"delete", "new", "create_scene", "reset", "start",
                   "draw", "get_status">>
    /\ Len(sessions) >= 2
    /\ ~sessions[1].alive
    /\ LiveSessions = {g_session}

\* C3: the scene of the session a draw goes to was built with the buffer
\* dimensions passed to that draw.
C3_SceneDimsMatchDraw ==
    \A i \in DrawOps :
        LET sc == sessions[ops[i].session].scene
        IN  /\ sc.kind = "scene"
            /\ sc.camera.width = ops[i].width
            /\ sc.camera.height = ops[i].height

\* C4: once a cycles_render call has returned, a session exists.
C4_FirstCallBuilds ==
    (called /\ pc = "idle") => g_session # NULL

\* C5: every cycles_render call that has returned issued exactly one draw,
\* with the buffer dimensions of its viewport.
C5_OneDrawPerCall ==
    (called /\ pc = "idle") =>
        /\ Cardinality(DrawOps) = 1
        /\ \A i \in DrawOps :
               /\ ops[i].width = g_buffer_params.width
               /\ ops[i].height = g_buffer_params.height

\* C6: when the key computed by a call equals last_key, the scene of the
\* live session is the scene create_scene would build from the inputs of
\* this call.
C6_EqualKeySameScene ==
    (pc = "draw" /\ matched /\ g_session # NULL) =>
        sessions[g_session].scene = create_scene(rect[3], rect[4])

\* C7: a built scene holds no object whose mesh has zero triangles, and
\* its objects are as many as the iterated blocks with at least one quad.
C7_NoEmptyObjects ==
    \A s \in 1..Len(sessions) :
        sessions[s].scene.kind = "scene" =>
            LET sc == sessions[s].scene
            IN  /\ \A k \in 1..Len(sc.objects) :
                       Len(sc.meshes[sc.objects[k].mesh].triangles) > 0
                /\ \A k \in 1..Len(sc.meshes) :
                       Len(sc.meshes[k].triangles) > 0
                /\ (pc = "reset" /\ s = g_session) =>
                       Len(sc.objects) =
                           Cardinality({p \in BlockPositions :
                               /\ \E k \in 1..Len(mesh_iter(render_mesh)) :
                                      mesh_iter(render_mesh)[k] = p
                               /\ Len(mesh_generate_vertices(render_mesh, p))
                                      >= 4})

\* C8: outside a rebuild, g_session is NULL or refers to a live session,
\* and no draw or status query goes to a destroyed session.
C8_NoDanglingSession ==
    /\ (pc \in {"idle", "draw", "status"} /\ g_session # NULL) =>
           sessions[g_session].alive
    /\ \A i \in 1..Len(ops) :
           ops[i].op \in {"draw", "get_status"} => ops[i].alive

\* C9: once cycles_init has completed, the session device is an entry of
\* the available-device list and its type is CPU.
C9_InitDeviceFromList ==
    pc # "boot" =>
        /\ g_session_params.device.type = "CPU"
        /\ \E i \in 1..Len(devices) : devices[i] = g_session_params.device

\* C10: for a block with nb >= 1 quads the mesh has the 4*nb emitted
\* vertices in order and 2*nb triangles, quad i giving (4i, 4i+1, 4i+2) and
\* (4i+2, 4i+3, 4i), both following the quad's corner order and indexing
\* below 4*nb; the corner colours are 6*nb, the six of quad i being the
\* colour of vertex 4i, and every vertex read for them lies below 4*nb.
Rotations3(t) == {t, <<t[2], t[3], t[1]>>, <<t[3], t[1], t[2]>>}
SameWinding(t, i) ==
    \E r \in Rotations3(t) :
        /\ 4 * i <= r[1]
        /\ r[1] < r[2]
        /\ r[2] < r[3]
        /\ r[3] < 4 * i + 4

C10_MeshShape ==
    mesh_out.kind = "mesh" =>
        LET v  == mesh_generate_vertices(render_mesh, mesh_out.block_pos)
            nb == Len(render_mesh[mesh_out.block_pos])
            m  == mesh_out.mesh
        IN  nb >= 1 =>
              /\ Len(m.verts) = 4 * nb
              /\ \A k \in 1..(4 * nb) : m.verts[k] = v[k].pos
              /\ Len(m.triangles) = 2 * nb
              /\ \A i \in 0..(nb - 1) :
                     /\ m.triangles[2 * i + 1] = <<4 * i, 4 * i + 1, 4 * i + 2>>
                     /\ m.triangles[2 * i + 2] = <<4 * i + 2, 4 * i + 3, 4 * i>>
                     /\ SameWinding(m.triangles[2 * i + 1], i)
                     /\ SameWinding(m.triangles[2 * i + 2], i)
              /\ \A t \in 1..(2 * nb) : \A c \in 1..3 :
                     m.triangles[t][c] >= 0 /\ m.triangles[t][c] < 4 * nb
              /\ Len(m.Col) = 6 * nb
              /\ Len(m.Col) = 3 * Len(m.triangles)
              /\ \A i \in 0..(nb - 1) : \A c \in 0..5 :
                     m.Col[6 * i + c + 1] = v[4 * i + 1].color
              /\ \A c \in 0..(6 * nb - 1) :
                     color_index(c) >= 0 /\ color_index(c) < 4 * nb

C10_Witness ==
    /\ mesh_out.kind = "mesh"
    /\ Len(render_mesh[mesh_out.block_pos]) = MaxQuads
    /\ render_mesh[mesh_out.block_pos][1] # render_mesh[mesh_out.block_pos][2]
    /\ Len(mesh_out.mesh.Col) = 6 * MaxQuads

====
